---- MODULE Spec2Model ----
\* go-msvc/crud: the registry (Server / Crud builders) and the HTTP dispatch
\* handlers for stores and custom operations, as a state machine.
\*
\* Strings that the code takes apart (URL paths, store names, identifiers) are
\* sequences of one-character strings; fixed messages are TLA+ strings.
EXTENDS Integers, Sequences, FiniteSets, TLC

VARIABLES
    pc,       \* "build": wiring code runs; "serve": mux bound; "fatal": panic in wiring
    kind,     \* which builder the wiring code uses: "Server" or "Crud"
    servers,  \* the builder values the wiring code holds, in creation order
    arrays,   \* heap: backing arrays of the stores slices (Len = capacity)
    maps,     \* heap: the opers maps (shared by every copy of a Server value)
    made,     \* history: the bindings each builder value had when it was returned
    mux,      \* the handlers bound by AddToMux
    db,       \* the storage collaborators' content, in insertion order
    created,  \* history: the (store, item, envelope) of every create answered 200
    last      \* the request served last, its response and the calls it made

vars == <<pc, kind, servers, arrays, maps, made, mux, db, created, last>>

-----------------------------------------------------------------------------
\* Bounds

\* builder values derived with With / WithOper before the mux is bound
MaxServers == 3

\* items the storage collaborators hold in total
MaxItems == 2

\* builder values derived under SpecWith, which chains With alone
MaxWith == 5

-----------------------------------------------------------------------------
\* Owner-supplied data: stores, item types, operations

StoreNames == {"a", "b"}

\* s.Name()
Name(s) == <<s>>

\* How the item / request type declares Validate: not at all ("none"), on the
\* pointer receiver ("ptr") or on the value receiver ("value").
ValidateKinds == {"none", "ptr", "value"}

\* s.Type(): the item type of each store, given by how it declares Validate
Type(s) == IF s = "a" THEN "ptr" ELSE "value"

OperPaths == {<<"/", "o">>}

\* The operations the wiring code may try to register. numIn counts the
\* receiver, as reflect's Method.Type does; out2 is the declared type of the
\* second output.
OperDefs ==
    [ good      |-> [hasProcess |-> TRUE,  numIn |-> 2, numOut |-> 2, out2 |-> "error",  reqOk |-> TRUE,  reqType |-> "value"],
      oneOut    |-> [hasProcess |-> TRUE,  numIn |-> 2, numOut |-> 1, out2 |-> "-",      reqOk |-> TRUE,  reqType |-> "ptr"],
      threeOut  |-> [hasProcess |-> TRUE,  numIn |-> 2, numOut |-> 3, out2 |-> "error",  reqOk |-> TRUE,  reqType |-> "none"],
      strErr    |-> [hasProcess |-> TRUE,  numIn |-> 2, numOut |-> 2, out2 |-> "string", reqOk |-> TRUE,  reqType |-> "none"],
      noProcess |-> [hasProcess |-> FALSE, numIn |-> 0, numOut |-> 0, out2 |-> "-",      reqOk |-> TRUE,  reqType |-> "none"],
      twoArgs   |-> [hasProcess |-> TRUE,  numIn |-> 3, numOut |-> 2, out2 |-> "error",  reqOk |-> TRUE,  reqType |-> "none"],
      noArgs    |-> [hasProcess |-> TRUE,  numIn |-> 1, numOut |-> 2, out2 |-> "error",  reqOk |-> TRUE,  reqType |-> "none"],
      badReq    |-> [hasProcess |-> TRUE,  numIn |-> 2, numOut |-> 2, out2 |-> "error",  reqOk |-> FALSE, reqType |-> "none"] ]

Opers == DOMAIN OperDefs

NoOper == "none"

-----------------------------------------------------------------------------
\* Go built-ins used by the builders

\* cap(slice): a slice is [arr, len]; arr = 0 is make([]T, 0), no backing array
Cap(sl) == IF sl.arr = 0 THEN 0 ELSE Len(arrays[sl.arr])

\* the elements a slice shows
Elems(heap, sl) == IF sl.arr = 0 THEN <<>> ELSE SubSeq(heap[sl.arr], 1, sl.len)

\* capacity append grows to when the backing array is full: 0 -> 1 -> 2 -> 4
GrowCap(c) == IF c = 0 THEN 1 ELSE 2 * c

\* append(sl, s): [slice, heap]. Room left in the backing array: written in
\* place (every slice on that array sees the slot); else a grown copy.
GoAppend(sl, s) ==
    IF sl.len < Cap(sl)
    THEN [slice |-> [arr |-> sl.arr, len |-> sl.len + 1],
          heap  |-> [arrays EXCEPT ![sl.arr][sl.len + 1] = s]]
    ELSE LET old   == Elems(arrays, sl)
             fresh == [i \in 1..GrowCap(Cap(sl)) |->
                         IF i <= sl.len THEN old[i]
                         ELSE IF i = sl.len + 1 THEN s ELSE "nil"]
         IN [slice |-> [arr |-> Len(arrays) + 1, len |-> sl.len + 1],
             heap  |-> Append(arrays, fresh)]

EmptyMap == [p \in OperPaths |-> NoOper]

\* the bindings a builder value shows now
Bindings(sv) ==
    [stores |-> Elems(arrays, sv.stores),
     opers  |-> IF sv.opers = 0 THEN EmptyMap ELSE maps[sv.opers]]

-----------------------------------------------------------------------------
\* Library calls the handlers make

Slash == <<"/">>

\* position of the first "/" in str, 0 when there is none
IndexSlash(str) ==
    IF \E i \in 1..Len(str) : str[i] = "/"
    THEN CHOOSE i \in 1..Len(str) : str[i] = "/" /\ \A j \in 1..(i - 1) : str[j] # "/"
    ELSE 0

\* strings.SplitN(str, "/", n) for n > 0: at most n parts, the last one the
\* unsplit remainder
RECURSIVE SplitN(_, _)
SplitN(str, n) ==
    LET i == IndexSlash(str)
    IN IF n = 1 \/ i = 0
       THEN <<str>>
       ELSE <<SubSeq(str, 1, i - 1)>> \o SplitN(SubSeq(str, i + 1, Len(str)), n - 1)

\* str begins with pre
HasPrefix(str, pre) ==
    Len(pre) <= Len(str) /\ SubSeq(str, 1, Len(pre)) = pre

NoHeaders ==
    [ItemID |-> <<>>, ItemUserID |-> <<>>, ItemTimestamp |-> <<>>,
     ItemRevision |-> <<>>, ContentType |-> ""]

\* nothing written: the state of the ResponseWriter when the handler starts
NoResponse ==
    [status |-> 0, body |-> <<>>, hdr |-> NoHeaders]

\* http.Error(res, msg, code)
HttpError(msg, code) ==
    [status |-> code, body |-> <<"text", msg>>,
     hdr |-> [NoHeaders EXCEPT !.ContentType = "text/plain; charset=utf-8"]]

\* json.NewDecoder(req.Body).Decode(ptr): the body must be well-formed JSON
\* of the target's shape; fields the shape does not have are dropped
Decode(body) ==
    IF body.syntax = "object"
    THEN [err |-> FALSE, val |-> body.val]
    ELSE [err |-> TRUE, val |-> ""]

\* json.Marshal(v)
Marshal(v) == <<"json", v>>

\* Time.Format(timestampFormat): date, time to the second and zone offset;
\* the fraction of a second is not rendered
timestampFormat(ts) == <<ts.sec>>

\* fmt.Sprintf("%d", rev)
FormatRev(rev) == <<rev>>

\* the method set of *T holds Validate when T or *T declares it
PtrFormValidates(k) == k \in {"ptr", "value"}

\* the method set of T holds Validate only when T declares it
ValueFormValidates(k) == k = "value"

-----------------------------------------------------------------------------
\* Storage collaborator (store.IStore), by its contract

IdChars == <<"1", "2", "3", "4", "5">>

NoInfo == [ID |-> <<>>, UserID |-> <<>>, Rev |-> 0, Timestamp |-> [sec |-> 0, frac |-> 0]]

\* the records store s holds
StoreItems(d, s) == SelectSeq(d, LAMBDA r : r.store = s)

\* s.Add(item): persists the item under a fresh identifier, revision 1
StoreAdd(d, s, item, ok) ==
    IF ok
    THEN [err |-> FALSE,
          info |-> [ID |-> <<IdChars[Len(StoreItems(d, s)) + 1]>>,
                    UserID |-> <<"u">>,
                    Rev |-> 1,
                    Timestamp |-> [sec |-> 100 + Len(d), frac |-> 1 + Len(d)]]]
    ELSE [err |-> TRUE, info |-> NoInfo]

\* s.Get(id): the item and envelope stored under id; an error when there is
\* none or when the backend fails
StoreGet(d, s, id, fault) ==
    LET hits == SelectSeq(d, LAMBDA r : r.store = s /\ r.info.ID = id)
    IN IF fault \/ Len(hits) = 0
       THEN [err |-> TRUE, v |-> "", info |-> NoInfo]
       ELSE [err |-> FALSE, v |-> hits[1].item, info |-> hits[1].info]

-----------------------------------------------------------------------------
\* Requests and what the owner-supplied code answers while one is served

\* a request body: not JSON at all, or a JSON object of the target's shape
\* carrying val ("bad" is a payload its Validate rejects)
EmptyBody == [syntax |-> "empty", val |-> ""]

PostBodies ==
    {[syntax |-> "garbage", val |-> ""]} \cup
    {[syntax |-> "object", val |-> v] : v \in {"v1", "v2", "bad"}}

\* what the collaborators answer during one request:
\*   vfail    Validate, invoked on the value form, fails for a reason outside
\*            the payload
\*   addOk    s.Add succeeds
\*   getFault s.Get fails in the backend
\*   fail     Process reports a failure
Quiet == [vfail |-> FALSE, addOk |-> FALSE, getFault |-> FALSE, fail |-> FALSE]

\* Validate() on the decoded payload, through the given form
ValidateErr(form, v, env) ==
    v = "bad" \/ (form = "value" /\ env.vfail)

\* what a handler did: the response and the calls it made, in order
Did(out) ==
    [out |-> out, validated |-> <<>>, added |-> <<>>, addInfo |-> NoInfo,
     got |-> <<>>, getErr |-> FALSE, processed |-> <<>>, procOut |-> <<>>,
     panicked |-> FALSE]

-----------------------------------------------------------------------------
\* Server: store dispatch (storeHandler, storePost, storeGet)

\* one invocation of Validate: the form it went through and what it returned
Call(form, v, env) == [form |-> form, err |-> ValidateErr(form, v, env)]

\* variant of ValidateForms: the pointer form is not probed
ValidateForms_valueOnly(k, v, env) ==
    IF ValueFormValidates(k)
    THEN [calls |-> <<Call("value", v, env)>>, failed |-> ValidateErr("value", v, env)]
    ELSE [calls |-> <<>>, failed |-> FALSE]

\* storePost / operPost: Validate through the pointer form, then through the
\* value form, stopping at the first error; [calls, failed]
ValidateForms(k, v, env) ==
    IF PtrFormValidates(k) /\ ValidateErr("ptr", v, env)
    THEN [calls |-> <<Call("ptr", v, env)>>, failed |-> TRUE]
    ELSE LET first == IF PtrFormValidates(k) THEN <<Call("ptr", v, env)>> ELSE <<>>
         IN IF ValueFormValidates(k)
            THEN [calls |-> first \o <<Call("value", v, env)>>,
                  failed |-> ValidateErr("value", v, env)]
            ELSE [calls |-> first, failed |-> FALSE]

\* variant of storePostReply: Item-User-ID set from the identifier
storePostReply_sameID(info) ==
    [status |-> 200,
     body   |-> Marshal(info),
     hdr    |-> [ItemID        |-> info.ID,
                 ItemUserID    |-> info.ID,
                 ItemTimestamp |-> timestampFormat(info.Timestamp),
                 ItemRevision  |-> FormatRev(info.Rev),
                 ContentType   |-> "application/json"]]

\* storePost, on success: the envelope as JSON body, mirrored into the headers
storePostReply(info) ==
    [status |-> 200,
     body   |-> Marshal(info),
     hdr    |-> [ItemID        |-> info.ID,
                 ItemUserID    |-> info.UserID,
                 ItemTimestamp |-> timestampFormat(info.Timestamp),
                 ItemRevision  |-> FormatRev(info.Rev),
                 ContentType   |-> "application/json"]]

\* Server.storePost(s, res, req)
storePost(s, req, env, d) ==
    IF req.path # Slash \o Name(s)
    THEN Did(HttpError(<<"Expecting POST /", Name(s)>>, 400))
    ELSE LET dec == Decode(req.body)
         IN IF dec.err
            THEN Did(HttpError(<<"Cannot parse body as JSON ", Name(s)>>, 400))
            ELSE LET val == ValidateForms(Type(s), dec.val, env)
                 IN IF val.failed
                    THEN [Did(HttpError(<<"invalid ", Name(s)>>, 400))
                            EXCEPT !.validated = val.calls]
                    ELSE LET add == StoreAdd(d, s, dec.val, env.addOk)
                         IN IF add.err
                            THEN [Did(HttpError(<<"failed to add">>, 500))
                                    EXCEPT !.validated = val.calls,
                                           !.added = <<dec.val>>]
                            ELSE [Did(storePostReply(add.info))
                                    EXCEPT !.validated = val.calls,
                                           !.added = <<dec.val>>,
                                           !.addInfo = add.info]

\* variant of storeGetPathOK: deeper paths pass
storeGetPathOK_atLeast(parts) ==
    ~(Len(parts) < 3 \/ Len(parts[3]) = 0)

\* storeGet: the path is "", name, id with a non-empty id
storeGetPathOK(parts) ==
    ~(Len(parts) # 3 \/ Len(parts[3]) = 0)

\* variant of storeGetID: the name segment taken for the identifier
storeGetID_name(parts) == parts[2]

\* storeGet: id := parts[2], the third part
storeGetID(parts) == parts[3]

\* storeGet, on success: the item as JSON body, timestamp and revision headers
storeGetReply(v, info) ==
    [status |-> 200,
     body   |-> Marshal(v),
     hdr    |-> [NoHeaders EXCEPT !.ItemTimestamp = timestampFormat(info.Timestamp),
                                  !.ItemRevision  = FormatRev(info.Rev),
                                  !.ContentType   = "application/json"]]

\* Server.storeGet(s, res, req)
storeGet(s, req, env, d) ==
    LET parts == SplitN(req.path, 4)
    IN IF ~storeGetPathOK(parts)
       THEN Did(HttpError(<<"Expecting GET /", Name(s), "/<id>">>, 404))
       ELSE LET id  == storeGetID(parts)
                res == StoreGet(d, s, id, env.getFault)
            IN IF res.err
               THEN [Did(HttpError(<<"Expecting GET /", Name(s), "/<id>">>, 404))
                       EXCEPT !.got = <<id>>, !.getErr = TRUE]
               ELSE [Did(storeGetReply(res.v, res.info)) EXCEPT !.got = <<id>>]

\* variant of storeHandler: every method but GET is handed to postFunc
storeHandler_noDefault(s, req, env, d) ==
    CASE req.method = "GET" -> storeGet(s, req, env, d)
      [] OTHER -> storePost(s, req, env, d)

\* Server.storeHandler(postFunc, getFunc, s): the branch on the method
storeHandler(s, req, env, d) ==
    CASE req.method = "POST" -> storePost(s, req, env, d)
      [] req.method = "GET"  -> storeGet(s, req, env, d)
      [] OTHER -> Did(HttpError(
                    <<"CRUD: Create with POST, Read with GET, Update with PUT, Delete with DELETE.">>,
                    405))

-----------------------------------------------------------------------------
\* Crud: store dispatch (handler, post, get)

\* Crud.post: Validate through the value form only
Crud_ValidateForms(k, v, env) ==
    IF ValueFormValidates(k)
    THEN [calls |-> <<Call("value", v, env)>>, failed |-> ValidateErr("value", v, env)]
    ELSE [calls |-> <<>>, failed |-> FALSE]

\* Crud.post(s, res, req)
Crud_post(s, req, env, d) ==
    IF req.path # Slash \o Name(s)
    THEN Did(HttpError(<<"Expecting POST /", Name(s)>>, 400))
    ELSE LET dec == Decode(req.body)
         IN IF dec.err
            THEN Did(HttpError(<<"Cannot parse body as JSON ", Name(s)>>, 400))
            ELSE LET val == Crud_ValidateForms(Type(s), dec.val, env)
                 IN IF val.failed
                    THEN [Did(HttpError(<<"invalid ", Name(s)>>, 400))
                            EXCEPT !.validated = val.calls]
                    ELSE LET add == StoreAdd(d, s, dec.val, env.addOk)
                         IN IF add.err
                            THEN [Did(HttpError(<<"failed to add">>, 500))
                                    EXCEPT !.validated = val.calls,
                                           !.added = <<dec.val>>]
                            ELSE [Did(storePostReply(add.info))
                                    EXCEPT !.validated = val.calls,
                                           !.added = <<dec.val>>,
                                           !.addInfo = add.info]

\* Crud.get(s, res, req)
Crud_get(s, req, env, d) ==
    LET parts == SplitN(req.path, 4)
    IN IF Len(parts) # 3 \/ Len(parts[3]) = 0
       THEN Did(HttpError(<<"Expecting GET /", Name(s), "/<id>">>, 404))
       ELSE LET id  == parts[3]
                res == StoreGet(d, s, id, env.getFault)
            IN IF res.err
               THEN [Did(HttpError(<<"Expecting GET /", Name(s), "/<id>">>, 404))
                       EXCEPT !.got = <<id>>, !.getErr = TRUE]
               ELSE [Did(storeGetReply(res.v, res.info)) EXCEPT !.got = <<id>>]

\* Crud.handler(postFunc, getFunc, s)
Crud_handler(s, req, env, d) ==
    CASE req.method = "POST" -> Crud_post(s, req, env, d)
      [] req.method = "GET"  -> Crud_get(s, req, env, d)
      [] OTHER -> Did(HttpError(
                    <<"CRUD: Create with POST, Read with GET, Update with PUT, Delete with DELETE.">>,
                    405))

-----------------------------------------------------------------------------
\* Server: operation dispatch (operHandler, operPost)

\* o.processMethod.Call(in): the outputs of Process, as many as it declares.
\* A second output declared error is nil or an error; one declared string is
\* never the nil interface.
ProcessOut(o, v, env) ==
    LET second == IF OperDefs[o].out2 = "error"
                  THEN (IF env.fail THEN "error" ELSE "nil")
                  ELSE "string"
        all == << <<"response", v>>, second, "extra" >>
    IN SubSeq(all, 1, OperDefs[o].numOut)

\* variant of operPostArityOK: extra outputs pass
operPostArityOK_atLeast(out) ==
    ~(Len(out) < 2)

\* operPost: the number of outputs is the one the contract names
operPostArityOK(out) ==
    ~(Len(out) # 2)

\* variant of operPostReply: a failure of Process answered as an internal error
operPostReply_failure500(out) ==
    IF ~operPostArityOK(out)
    THEN [out |-> HttpError(<<"Process() returned ", Len(out), " instead of 2 values">>, 500),
          panicked |-> FALSE]
    ELSE IF out[2] # "nil"
         THEN IF out[2] # "error"
              THEN [out |-> NoResponse, panicked |-> TRUE]
              ELSE [out |-> HttpError(<<"failed: ">>, 500), panicked |-> FALSE]
         ELSE [out |-> [status |-> 200,
                        body   |-> Marshal(out[1]),
                        hdr    |-> [NoHeaders EXCEPT !.ContentType = "application/json"]],
               panicked |-> FALSE]

\* operPost, after the call: what is written for the outputs of Process.
\* [out: the response, panicked: the handler panicked before writing any]
operPostReply(out) ==
    IF ~operPostArityOK(out)
    THEN [out |-> HttpError(<<"Process() returned ", Len(out), " instead of 2 values">>, 500),
          panicked |-> FALSE]
    ELSE IF out[2] # "nil"
         THEN IF out[2] # "error"
              THEN [out |-> NoResponse, panicked |-> TRUE]
              ELSE [out |-> HttpError(<<"failed: ">>, 400), panicked |-> FALSE]
         ELSE [out |-> [status |-> 200,
                        body   |-> Marshal(out[1]),
                        hdr    |-> [NoHeaders EXCEPT !.ContentType = "application/json"]],
               panicked |-> FALSE]

\* Server.operPost(o, res, req)
operPost(o, req, env) ==
    LET dec == Decode(req.body)
    IN IF dec.err
       THEN Did(HttpError(<<"Cannot parse body as JSON ", o>>, 400))
       ELSE LET val == ValidateForms(OperDefs[o].reqType, dec.val, env)
            IN IF val.failed
               THEN [Did(HttpError(<<"invalid ", o>>, 400))
                       EXCEPT !.validated = val.calls]
               ELSE LET out   == ProcessOut(o, dec.val, env)
                        reply == operPostReply(out)
                    IN [Did(reply.out)
                          EXCEPT !.validated = val.calls,
                                 !.processed = <<dec.val>>,
                                 !.procOut = out,
                                 !.panicked = reply.panicked]

\* Server.operHandler(postFunc, o): the branch on the method
operHandler(o, req, env) ==
    CASE req.method = "POST" -> operPost(o, req, env)
      [] OTHER -> Did(HttpError(<<req.path, " accepts only POST">>, 405))

-----------------------------------------------------------------------------
\* Serving: one action per handler bound to the mux

\* the paths requests to store s are sent to
StorePaths(s) ==
    LET base == Slash \o Name(s)
    IN {base, base \o Slash, base \o Slash \o <<"1">> \o Slash \o <<"x">>}
       \cup {base \o Slash \o <<IdChars[n]>> : n \in 1..MaxItems}

\* the requests sent to store s
StoreRequests(s) ==
    {[method |-> "POST", path |-> Slash \o Name(s), body |-> b] : b \in PostBodies}
    \cup {[method |-> "POST", path |-> p, body |-> [syntax |-> "object", val |-> "v1"]] :
            p \in StorePaths(s) \ {Slash \o Name(s)}}
    \cup {[method |-> m, path |-> p, body |-> EmptyBody] :
            m \in {"GET", "PUT", "DELETE"}, p \in StorePaths(s)}

\* the requests sent to the operation at path p
OperRequests(p) ==
    {[method |-> "POST", path |-> p, body |-> b] : b \in PostBodies}
    \cup {[method |-> m, path |-> p, body |-> EmptyBody] : m \in {"GET"}}

\* the answers a store request of that method can ask for
StoreEnvs(req) ==
    [vfail    : IF req.method = "POST" THEN BOOLEAN ELSE {FALSE},
     addOk    : IF req.method = "POST" THEN BOOLEAN ELSE {FALSE},
     getFault : IF req.method = "GET" THEN BOOLEAN ELSE {FALSE},
     fail     : {FALSE}]

\* the answers an operation request of that method can ask for
OperEnvs(req) ==
    [vfail    : IF req.method = "POST" THEN BOOLEAN ELSE {FALSE},
     addOk    : {FALSE},
     getFault : {FALSE},
     fail     : IF req.method = "POST" THEN BOOLEAN ELSE {FALSE}]

\* an answer is given only by a collaborator that was asked
Asked(r, env) ==
    /\ env.vfail => (\E j \in 1..Len(r.validated) : r.validated[j].form = "value")
    /\ env.addOk => Len(r.added) = 1
    /\ env.getFault => Len(r.got) = 1
    /\ env.fail => (Len(r.procOut) >= 2 /\ r.procOut[2] = "error")

\* the patterns AddToMux binds store s to: "/name" and everything under "/name/"
Routed(s, path) ==
    \/ path = Slash \o Name(s)
    \/ HasPrefix(path, Slash \o Name(s) \o Slash)

\* the storage collaborator after the handler's calls
Committed(d, s, r) ==
    IF r.addInfo # NoInfo
    THEN Append(d, [store |-> s, item |-> r.added[1], info |-> r.addInfo])
    ELSE d

\* a request served by Server.storeHandler for store s
StoreRequest(s, req, env) ==
    /\ pc = "serve" /\ mux.impl = "Server"
    /\ s \in mux.stores /\ Routed(s, req.path)
    /\ env.addOk => Len(db) < MaxItems
    /\ LET r == storeHandler(s, req, env, db)
       IN /\ Asked(r, env)
          /\ last' = [target |-> "store", s |-> s, o |-> NoOper, req |-> req, r |-> r]
          /\ db' = Committed(db, s, r)
          /\ created' = Committed(created, s, r)
    /\ UNCHANGED <<pc, kind, servers, arrays, maps, made, mux>>

\* a request served by Crud.handler for store s
Crud_Request(s, req, env) ==
    /\ pc = "serve" /\ mux.impl = "Crud"
    /\ s \in mux.stores /\ Routed(s, req.path)
    /\ env.addOk => Len(db) < MaxItems
    /\ LET r == Crud_handler(s, req, env, db)
       IN /\ Asked(r, env)
          /\ last' = [target |-> "store", s |-> s, o |-> NoOper, req |-> req, r |-> r]
          /\ db' = Committed(db, s, r)
          /\ created' = Committed(created, s, r)
    /\ UNCHANGED <<pc, kind, servers, arrays, maps, made, mux>>

\* a request served by Server.operHandler for the operation bound to path p
OperRequest(p, req, env) ==
    /\ pc = "serve" /\ mux.impl = "Server"
    /\ mux.opers[p] # NoOper /\ req.path = p
    /\ LET r == operHandler(mux.opers[p], req, env)
       IN /\ Asked(r, env)
          /\ last' = [target |-> "oper", s |-> "", o |-> mux.opers[p], req |-> req, r |-> r]
    /\ UNCHANGED <<pc, kind, servers, arrays, maps, made, mux, db, created>>

Serve ==
    \/ \E s \in StoreNames : \E req \in StoreRequests(s) : \E env \in StoreEnvs(req) : StoreRequest(s, req, env)
    \/ \E s \in StoreNames : \E req \in StoreRequests(s) : \E env \in StoreEnvs(req) : Crud_Request(s, req, env)
    \/ \E p \in OperPaths : \E req \in OperRequests(p) : \E env \in OperEnvs(req) : OperRequest(p, req, env)

-----------------------------------------------------------------------------
\* Registry: New, With, WithOper, AddToMux

NoRequest ==
    [target |-> "none", s |-> "", o |-> NoOper,
     req |-> [method |-> "", path |-> <<>>, body |-> EmptyBody],
     r |-> Did(NoResponse)]

NoMux == [impl |-> "none", stores |-> {}, opers |-> EmptyMap]

\* a panic in the wiring code ends the process
Fatal ==
    /\ pc' = "fatal"
    /\ servers' = <<>>
    /\ arrays' = <<>>
    /\ maps' = <<>>
    /\ made' = <<>>
    /\ UNCHANGED <<kind, mux, db, created, last>>

\* New(): Server{stores: make([]store.IStore, 0), opers: make(map[string]operInfo)}
\* (Crud has no opers map: opers = 0)
Init ==
    /\ pc = "build"
    /\ kind \in {"Server", "Crud"}
    /\ servers = << [stores |-> [arr |-> 0, len |-> 0],
                     opers  |-> IF kind = "Server" THEN 1 ELSE 0] >>
    /\ arrays = <<>>
    /\ maps = IF kind = "Server" THEN <<EmptyMap>> ELSE <<>>
    /\ made = << [stores |-> <<>>, opers |-> EmptyMap] >>
    /\ mux = NoMux
    /\ db = <<>>
    /\ created = <<>>
    /\ last = NoRequest

\* the value With returns, and the heap after it
WithResult(sv, s) ==
    LET ap == GoAppend(sv.stores, s)
    IN [server |-> [sv EXCEPT !.stores = ap.slice], heap |-> ap.heap]

\* Server.With(s) on the i-th value held
With(i, s) ==
    /\ pc = "build" /\ kind = "Server"
    /\ Len(servers) <= MaxServers
    /\ LET r == WithResult(servers[i], s)
       IN /\ arrays' = r.heap
          /\ servers' = Append(servers, r.server)
          /\ made' = Append(made,
                        [stores |-> Elems(r.heap, r.server.stores),
                         opers  |-> maps[r.server.opers]])
    /\ UNCHANGED <<pc, kind, maps, mux, db, created, last>>

\* Crud.With(s) on the i-th value held
Crud_With(i, s) ==
    /\ pc = "build" /\ kind = "Crud"
    /\ Len(servers) <= MaxServers
    /\ LET r == WithResult(servers[i], s)
       IN /\ arrays' = r.heap
          /\ servers' = Append(servers, r.server)
          /\ made' = Append(made,
                        [stores |-> Elems(r.heap, r.server.stores),
                         opers  |-> EmptyMap])
    /\ UNCHANGED <<pc, kind, maps, mux, db, created, last>>

\* the checks WithOper makes before it stores the binding
WithOperAccepts(o) ==
    /\ OperDefs[o].hasProcess
    /\ OperDefs[o].numIn = 2
    /\ OperDefs[o].reqOk

\* Server.WithOper(path, oper) on the i-th value held
WithOper(i, p, o) ==
    /\ pc = "build" /\ kind = "Server"
    /\ Len(servers) <= MaxServers
    /\ IF ~WithOperAccepts(o)
       THEN Fatal
       ELSE /\ maps' = [maps EXCEPT ![servers[i].opers][p] = o]
            /\ servers' = Append(servers, servers[i])
            /\ made' = Append(made,
                          [stores |-> Elems(arrays, servers[i].stores),
                           opers  |-> maps'[servers[i].opers]])
            /\ UNCHANGED <<pc, kind, arrays, mux, db, created, last>>

\* two elements of the slice name the same store: mux.Handle panics on the
\* second registration of a pattern
DuplicatePattern(seq) ==
    \E j, k \in 1..Len(seq) : j # k /\ seq[j] = seq[k]

Range(seq) == {seq[j] : j \in 1..Len(seq)}

\* Server.AddToMux(mux) on the i-th value held. The handlers keep their own
\* copies of s and of the operInfo; the builder values are not read again.
AddToMux(i) ==
    /\ pc = "build" /\ kind = "Server"
    /\ LET b == Bindings(servers[i])
       IN IF DuplicatePattern(b.stores)
          THEN Fatal
          ELSE /\ mux' = [impl |-> "Server", stores |-> Range(b.stores), opers |-> b.opers]
               /\ pc' = "serve"
               /\ servers' = <<>>
               /\ arrays' = <<>>
               /\ maps' = <<>>
               /\ made' = <<>>
               /\ UNCHANGED <<kind, db, created, last>>

\* Crud.AddToMux(mux) on the i-th value held
Crud_AddToMux(i) ==
    /\ pc = "build" /\ kind = "Crud"
    /\ LET b == Bindings(servers[i])
       IN IF DuplicatePattern(b.stores)
          THEN Fatal
          ELSE /\ mux' = [impl |-> "Crud", stores |-> Range(b.stores), opers |-> EmptyMap]
               /\ pc' = "serve"
               /\ servers' = <<>>
               /\ arrays' = <<>>
               /\ maps' = <<>>
               /\ made' = <<>>
               /\ UNCHANGED <<kind, db, created, last>>

Build ==
    \/ \E i \in 1..Len(servers), s \in StoreNames : With(i, s)
    \/ \E i \in 1..Len(servers), s \in StoreNames : Crud_With(i, s)
    \/ \E i \in 1..Len(servers), p \in OperPaths, o \in Opers : WithOper(i, p, o)
    \/ \E i \in 1..Len(servers) : AddToMux(i)
    \/ \E i \in 1..Len(servers) : Crud_AddToMux(i)

Next == Build \/ Serve

Spec == Init /\ [][Next]_vars

\* With alone, chained far enough for append to find room in a backing array
\* (the fourth store of a chain is written in place)
ChainWith(i, s) ==
    /\ pc = "build" /\ kind = "Server"
    /\ Len(servers) <= MaxWith
    /\ LET r == WithResult(servers[i], s)
       IN /\ arrays' = r.heap
          /\ servers' = Append(servers, r.server)
          /\ made' = Append(made,
                        [stores |-> Elems(r.heap, r.server.stores),
                         opers  |-> maps[r.server.opers]])
    /\ UNCHANGED <<pc, kind, maps, mux, db, created, last>>

NextWith == \E i \in 1..Len(servers), s \in StoreNames : ChainWith(i, s)

SpecWith == Init /\ [][NextWith]_vars

-----------------------------------------------------------------------------
\* Properties

Q == last.req

R == last.r

StorePost == last.target = "store" /\ Q.method = "POST"

StoreGetReq == last.target = "store" /\ Q.method = "GET"

OperPostReq == last.target = "oper" /\ Q.method = "POST"

\* the 404 both failing reads are answered with
ExpectingGet(s) == HttpError(<<"Expecting GET /", Name(s), "/<id>">>, 404)

\* the forms of a payload of kind k that expose Validate, in probing order
Exposing(k) ==
    (IF PtrFormValidates(k) THEN <<"ptr">> ELSE <<>>)
        \o (IF ValueFormValidates(k) THEN <<"value">> ELSE <<>>)

Forms(calls) == [j \in 1..Len(calls) |-> calls[j].form]

Failed(calls) == \E j \in 1..Len(calls) : calls[j].err

\* C1: a POST to exactly /<s.name> whose body decodes into an item that
\* exposes Validate (in pointer or in value form) and whose Validate returns
\* an error is answered 400, and s.Add is not invoked.
C1_InvalidItemRejected ==
    (/\ StorePost
     /\ Q.path = Slash \o Name(last.s)
     /\ ~Decode(Q.body).err
     /\ Type(last.s) # "none"
     /\ ValidateErr("ptr", Decode(Q.body).val, Quiet))
    => (R.out.status = 400 /\ R.added = <<>>)

\* C2: a create for which s.Add succeeds with envelope e is answered 200 with
\* the JSON encoding of e as body, Item-ID, Item-User-ID, Item-Timestamp (in
\* timestampFormat) and Item-Revision carrying e's identifier, owning user,
\* timestamp and revision, and Content-Type application/json.
C2_CreateReply ==
    (StorePost /\ R.addInfo # NoInfo)
    => LET e == db[Len(db)].info
       IN /\ R.addInfo = e
          /\ R.out.status = 200
          /\ R.out.body = Marshal(e)
          /\ R.out.hdr.ItemID = e.ID
          /\ R.out.hdr.ItemUserID = e.UserID
          /\ R.out.hdr.ItemTimestamp = timestampFormat(e.Timestamp)
          /\ R.out.hdr.ItemRevision = FormatRev(e.Rev)
          /\ R.out.hdr.ContentType = "application/json"

\* the store accepted a valid item on a create sent to the exact path
C2_Witness ==
    /\ StorePost /\ mux.impl = "Server"
    /\ R.addInfo # NoInfo
    /\ R.out.status = 200
    /\ R.out.hdr.ItemID = <<"2">>
    /\ R.out.hdr.ItemTimestamp # <<>>

\* the handler of the bound implementation
Handle(s, req, env, d) ==
    IF mux.impl = "Crud" THEN Crud_handler(s, req, env, d) ELSE storeHandler(s, req, env, d)

\* C3: round trip. After any sequence of requests, for every (id, item) a
\* successful create stored and returned, a GET of /<s.name>/<id> that the
\* store answers returns 200 with the JSON encoding of the item passed to
\* s.Add, and Item-Timestamp / Item-Revision of the envelope s.Get returns.
C3_RoundTrip ==
    \A j \in 1..Len(created) :
        LET c    == created[j]
            path == Slash \o Name(c.store) \o Slash \o c.info.ID
            got  == StoreGet(db, c.store, c.info.ID, FALSE)
            r    == Handle(c.store, [method |-> "GET", path |-> path, body |-> EmptyBody], Quiet, db)
        IN /\ r.out.status = 200
           /\ r.out.body[1] = "json"
           /\ r.out.body = Marshal(c.item)
           /\ r.out.hdr.ItemTimestamp = timestampFormat(got.info.Timestamp)
           /\ r.out.hdr.ItemRevision = FormatRev(got.info.Rev)
           /\ r.got = <<c.info.ID>>

\* a GET of the second of two items created in one store was answered with it
C3_Witness ==
    /\ StoreGetReq /\ mux.impl = "Server"
    /\ Len(created) = 2
    /\ created[1].store = created[2].store
    /\ created[1].item # created[2].item
    /\ R.got = <<created[2].info.ID>>
    /\ last.s = created[2].store
    /\ R.out.status = 200
    /\ R.out.body = Marshal(created[2].item)

\* C4: a request with a method other than POST or GET to /<s.name> or to a
\* path under /<s.name>/ is answered 405 with the fixed message, and neither
\* s.Add nor s.Get is invoked.
C4_MethodNotAllowed ==
    (last.target = "store" /\ Q.method \notin {"POST", "GET"})
    => /\ R.out.status = 405
       /\ R.out.body =
            <<"text", <<"CRUD: Create with POST, Read with GET, Update with PUT, Delete with DELETE.">> >>
       /\ R.added = <<>>
       /\ R.got = <<>>

\* a DELETE of an existing item was refused
C4_Witness ==
    /\ last.target = "store" /\ Q.method = "DELETE"
    /\ \E j \in 1..Len(created) :
          Q.path = Slash \o Name(created[j].store) \o Slash \o created[j].info.ID
    /\ R.out.status = 405

\* C5: a POST to a registered operation whose body decodes and passes
\* validation invokes Process exactly once, with the decoded request value;
\* a nil failure is answered 200 with the JSON encoding of the response
\* value, a non-nil failure 400. Process is not invoked when decoding or
\* validation fails.
C5_OperPost ==
    OperPostReq
    => LET dec == Decode(Q.body)
       IN /\ (dec.err \/ Failed(R.validated)) => R.processed = <<>>
          /\ (~dec.err /\ ~Failed(R.validated)) => R.processed = <<dec.val>>
          /\ (~dec.err /\ dec.val = "bad" /\ OperDefs[last.o].reqType # "none")
                => R.processed = <<>>
          /\ (Len(R.procOut) = 2 /\ R.procOut[2] = "nil")
                => /\ R.out.status = 200
                   /\ R.out.body = Marshal(R.procOut[1])
                   /\ R.out.hdr.ContentType = "application/json"
          /\ (Len(R.procOut) = 2 /\ R.procOut[2] = "error")
                => R.out.status = 400

\* Process of a well-formed operation reported a failure after both forms of
\* the request passed validation
C5_Witness ==
    /\ OperPostReq /\ last.o = "good"
    /\ Forms(R.validated) = <<"ptr", "value">>
    /\ R.processed = <<"v2">>
    /\ R.procOut[2] = "error"
    /\ R.out.status = 400

\* the operations bound in any registry the wiring code holds, or in the mux
BoundOpers ==
    {maps[m][p] : m \in 1..Len(maps), p \in OperPaths}
        \cup {mux.opers[p] : p \in OperPaths}

\* C6: an operation whose Process does not have exactly one input and exactly
\* two outputs is never present in a registry: WithOper fails with it.
C6_RegisteredOpersWellFormed ==
    \A o \in BoundOpers \ {NoOper} :
        OperDefs[o].numIn = 2 /\ OperDefs[o].numOut = 2

\* C7: a GET whose path is not "", name, id with a non-empty id is answered
\* 404 'Expecting GET /<s.name>/<id>' without s.Get being invoked, and a GET
\* for which s.Get returns an error (not found or backend failure) is
\* answered with the same status and body.
C7_GetNotFound ==
    StoreGetReq
    => LET parts == SplitN(Q.path, 4)
           shaped == Len(parts) = 3 /\ parts[3] # <<>>
       IN /\ ~shaped => (R.out = ExpectingGet(last.s) /\ R.got = <<>>)
          /\ shaped => R.got = <<parts[3]>>
          /\ (shaped /\ StoreGet(db, last.s, parts[3], FALSE).err)
                => R.out = ExpectingGet(last.s)
          /\ R.getErr => R.out = ExpectingGet(last.s)

\* s.Get failed in the backend for an item the store holds
C7_Witness ==
    /\ StoreGetReq /\ mux.impl = "Server"
    /\ Len(R.got) = 1
    /\ ~StoreGet(db, last.s, R.got[1], FALSE).err
    /\ R.getErr
    /\ R.out.status = 404

\* C8: in the store create flow and in the operation flow of Server, after a
\* successful decode Validate is invoked on the pointer form, then on the
\* value form, through every form that exposes it; a failure answers 400 and
\* ends the probing; s.Add / Process is invoked only after every exposing form
\* passed (twice invoked for a payload whose value form exposes it).
C8_ValidateOrder ==
    (/\ mux.impl = "Server"
     /\ StorePost \/ OperPostReq
     /\ last.target = "store" => Q.path = Slash \o Name(last.s)
     /\ ~Decode(Q.body).err)
    => LET k       == IF last.target = "store" THEN Type(last.s) ELSE OperDefs[last.o].reqType
           calls   == R.validated
           invoked == R.added # <<>> \/ R.processed # <<>>
       IN /\ Len(calls) <= Len(Exposing(k))
          /\ Forms(calls) = SubSeq(Exposing(k), 1, Len(calls))
          /\ \A j \in 1..Len(calls) : calls[j].err => j = Len(calls)
          /\ Failed(calls) => (R.out.status = 400 /\ ~invoked)
          /\ invoked <=> (Forms(calls) = Exposing(k) /\ ~Failed(calls))

\* the value form failed after the pointer form passed
C8_Witness ==
    /\ mux.impl = "Server" /\ StorePost
    /\ Forms(R.validated) = <<"ptr", "value">>
    /\ ~R.validated[1].err
    /\ R.validated[2].err
    /\ R.out.status = 400
    /\ R.added = <<>>

\* C9 (as stated): Process yielding other than two outputs is answered 500,
\* and a second output that is non-nil but no error ends as 500 too; no
\* success body is written in either case.
C9_ContractViolation500 ==
    (OperPostReq /\ R.processed # <<>>)
    => /\ Len(R.procOut) # 2 => R.out.status = 500
       /\ (Len(R.procOut) = 2 /\ R.procOut[2] \notin {"nil", "error"})
             => R.out.status = 500

\* C9 (amended): Process yielding other than two outputs is answered 500; a
\* second output that is non-nil but no error makes the handler panic before
\* it writes any status or body.
C9_ContractViolation ==
    (OperPostReq /\ R.processed # <<>>)
    => /\ Len(R.procOut) # 2
             => (R.out.status = 500 /\ R.out.body[1] = "text" /\ ~R.panicked)
       /\ (Len(R.procOut) = 2 /\ R.procOut[2] \notin {"nil", "error"})
             => (R.panicked /\ R.out = NoResponse)
       /\ R.panicked => (Len(R.procOut) = 2 /\ R.procOut[2] \notin {"nil", "error"})

\* Process returned a string as its second output
C9_Witness ==
    /\ OperPostReq /\ last.o = "strErr"
    /\ R.processed # <<>>
    /\ R.procOut[2] = "string"
    /\ R.panicked

\* C10: With and WithOper leave the bindings of the receiver and of every
\* builder value derived earlier as they were when that value was returned.
C10_BindingsFrozen ==
    \A i \in 1..Len(servers) : Bindings(servers[i]) = made[i]

\* The store bindings alone, under SpecWith: two values derived from one base
\* of three stores share the fourth slot, so this fails there as well.
StoresFrozen ==
    \A i \in 1..Len(servers) : Bindings(servers[i]).stores = made[i].stores

====
